---- MODULE Spec2Model ----
(***************************************************************************)
(* Model of rasa_core/channels/facebook.py: the Facebook Messenger input   *)
(* channel (signature validation, webhook dispatch, event handling,        *)
(* thread-control handover).                                               *)
(*                                                                         *)
(* Python values are modelled as follows.                                  *)
(*   - a str is a sequence of one-character strings;                       *)
(*   - an optional dict key is a sequence of length 0 (key absent) or 1    *)
(*     (key present, the element is its value);                            *)
(*   - a call returns a record [exc, val]: exc = "" for a normal return    *)
(*     of val, otherwise the name of the exception that was raised.        *)
(***************************************************************************)
EXTENDS Integers, Sequences, FiniteSets, TLC

VARIABLES
    workers,                      \* the requests being handled concurrently, one per worker
    last_message,                 \* BaseMessenger.last_message of each Messenger object
    fb_verify,                    \* FacebookInput.fb_verify (absent: not configured)
    fb_secret,                    \* FacebookInput.fb_secret
    fb_thread_control_authorized, \* FacebookInput.fb_thread_control_authorized
    pc,                           \* "idle": no request in hand; "done": a POST was answered
    request,                      \* the POST last received: [header, data]
    validated,                    \* outcome of validate_hub_signature for that POST
    response,                     \* what the webhook view returned (or the exception that left it)
    effects,                      \* calls made while handling that POST, in order
    thread_owner,                 \* thread owner per sender (the handover state of the protocol)
    out,                          \* the MessengerBot call last made: its arguments before and after
    get,                          \* the GET last received and its response
    payloads,                     \* payloads handed to messenger_client.send by that call, in order
    sig                           \* one application of validate_hub_signature (SpecSig)

vars == <<workers, last_message, fb_verify, get, fb_secret, fb_thread_control_authorized, pc, request, validated,
          response, effects, thread_owner, out, payloads, sig>>

(***************************************************************************)
(* Bounds                                                                  *)
(***************************************************************************)
MaxHeaderLen == 3   \* longest X-Hub-Signature header, in tokens
MaxExtra == 1       \* how far beyond the long-text limit message texts go
MaxButtons == 4     \* longest list of buttons passed to send_text_with_buttons
MaxReplies == 3     \* longest list of quick replies
MaxElements == 2    \* longest list of elements of a generic template
MaxElementButtons == 2  \* longest list of buttons of one element
MaxMessageLen == 5  \* longest text passed to send_text_message

(***************************************************************************)
(* Python helpers                                                          *)
(***************************************************************************)
Absent == <<>>
Some(v) == <<v>>
Has(o) == Len(o) = 1
Val(o) == o[1]

Ret(v) == [exc |-> "", val |-> v]
Raise(e) == [exc |-> e, val |-> FALSE]

(***************************************************************************)
(* Signature validation                                                    *)
(***************************************************************************)
\* A header is a sequence of tokens: the character "=", a name, or a hex
\* digest.  Names and digests contain no "=".
Eq == [sym |-> "=", d |-> <<>>]
Name(n) == [sym |-> n, d |-> <<>>]

\* hmac.new(key, msg, digestmod).hexdigest(): injective in (digestmod, key, msg)
hexdigest(alg, key, msg) == [sym |-> "hex", d |-> <<alg, key, msg>>]

\* the attributes of hashlib that are hash constructors
hashlib == {"sha1", "md5"}

\* str.split('='): the maximal "="-free segments, in order
RECURSIVE split(_)
split(s) ==
    IF \A i \in 1..Len(s) : s[i] # Eq
    THEN <<s>>
    ELSE LET i == CHOOSE k \in 1..Len(s) :
                      s[k] = Eq /\ \A j \in 1..(k-1) : s[j] # Eq
         IN  <<SubSeq(s, 1, i-1)>> \o split(SubSeq(s, i+1, Len(s)))

\* Mutant: the digest comparison is dropped.
validate_hub_signature_nocompare(app_secret, request_payload, hub_signature_header) ==
    LET parts == split(hub_signature_header) IN
    IF Len(parts) # 2
    THEN Ret(FALSE)
    ELSE IF ~(Len(parts[1]) = 1 /\ parts[1][1].sym \in hashlib)
         THEN Raise("AttributeError")
         ELSE Ret(TRUE)

validate_hub_signature(app_secret, request_payload, hub_signature_header) ==
    LET parts == split(hub_signature_header) IN
    IF Len(parts) # 2
    THEN Ret(FALSE)                       \* unpacking raised, caught by the except
    ELSE LET hash_method == parts[1]
             hub_signature == parts[2]
         IN  IF ~(Len(hash_method) = 1 /\ hash_method[1].sym \in hashlib)
             THEN Raise("AttributeError") \* getattr(hashlib, hash_method), in the else clause
             ELSE LET generated_hash ==
                          hexdigest(hash_method[1].sym, app_secret, request_payload)
                  IN  Ret(hub_signature = <<generated_hash>>)

(***************************************************************************)
(* Inbound events                                                          *)
(***************************************************************************)
LongTextLimit == 512

\* the str of n copies of the character c
MkText(c, n) == [i \in 1..n |-> c]

LONG_TEXT == <<"/", "l", "o", "n", "g", "_", "t", "e", "x", "t">>
PASSED_THREAD_CONTROL ==
    <<"/", "p", "a", "s", "s", "e", "d", "_", "t", "h", "r", "e", "a", "d",
      "_", "c", "o", "n", "t", "r", "o", "l">>
RECONNECT_USER ==
    <<"/", "r", "e", "c", "o", "n", "n", "e", "c", "t", "_", "u", "s", "e", "r">>

\* str(n) for an integer n, as "{}".format(n) renders it
Digit(d) == <<"0", "1", "2", "3", "4", "5", "6", "7", "8", "9">>[d + 1]
RECURSIVE NatStr(_)
NatStr(n) == IF n < 10 THEN <<Digit(n)>> ELSE NatStr(n \div 10) \o <<Digit(n % 10)>>
IntStr(n) == IF n < 0 THEN <<"-">> \o NatStr(-n) ELSE NatStr(n)

\* "{} {}".format(lat, long)
FormatLatLong(lat, long) == IntStr(lat) \o <<" ">> \o IntStr(long)

\* bool(d) of the dicts below: a dict is true iff it has a key
MsgTruthy(d) == Has(d.text) \/ Has(d.is_echo) \/ Has(d.attachments)
PostbackTruthy(d) == Has(d.payload) \/ d.title
RtcTruthy(d) == Has(d.requested_owner_app_id) \/ Has(d.metadata)
PtcTruthy(d) == Has(d.new_owner_app_id) \/ Has(d.metadata)

(***************************************************************************)
(* Messenger                                                               *)
(***************************************************************************)
\* one recorded call: a downstream forward or a platform command
Forward(text, sender_id, outcome) ==
    [op |-> "on_new_message", text |-> text, sender |-> sender_id,
     app_id |-> 0, metadata |-> <<>>, outcome |-> outcome]
Command(recipient_id, app_id, metadata, outcome) ==
    [op |-> "pass_thread_control", text |-> <<>>, sender |-> recipient_id,
     app_id |-> app_id, metadata |-> metadata, outcome |-> outcome]

\* a method's result: the exception that left it ("" if none) and the calls it made
Done(fx) == [exc |-> "", effects |-> fx]
Fail(e, fx) == [exc |-> e, effects |-> fx]

\* message.get('message') is truthy
HasMessage(message) == Has(message.message) /\ MsgTruthy(Val(message.message))

\* message['message'].get('attachments') is truthy
HasAttachments(message) ==
    /\ HasMessage(message)
    /\ Has(Val(message.message).attachments)
    /\ Val(Val(message.message).attachments) # <<>>

FirstAttachment(message) == Val(Val(message.message).attachments)[1]

_is_audio_message(message) ==
    IF ~HasAttachments(message) THEN Ret(FALSE)
    ELSE IF ~Has(FirstAttachment(message).type) THEN Raise("KeyError")
    ELSE Ret(Val(FirstAttachment(message).type) = "audio")

_is_user_message(message) ==
    /\ HasMessage(message)
    /\ Has(Val(message.message).text)
    /\ Val(Val(message.message).text) # <<>>
    /\ ~(Has(Val(message.message).is_echo) /\ Val(Val(message.message).is_echo))

_is_user_location(message) ==
    IF ~HasAttachments(message) THEN Ret(FALSE)
    ELSE IF ~Has(FirstAttachment(message).type) THEN Raise("KeyError")
    ELSE Ret(Val(FirstAttachment(message).type) = "location")

_is_request_thread_control(message) ==
    /\ Has(message.request_thread_control)
    /\ RtcTruthy(Val(message.request_thread_control))
    /\ Has(Val(message.request_thread_control).requested_owner_app_id)
    /\ Val(Val(message.request_thread_control).requested_owner_app_id) # 0

_is_pass_thread_control(message) ==
    /\ Has(message.pass_thread_control)
    /\ PtcTruthy(Val(message.pass_thread_control))
    /\ Has(Val(message.pass_thread_control).new_owner_app_id)
    /\ Val(Val(message.pass_thread_control).new_owner_app_id) # 0

\* BaseMessenger.get_user_id: last_message['sender']['id']
get_user_id(message) == message.sender.id

\* Mutant: the handler's exception is not caught.
_handle_user_message_nocatch(text, sender_id, handler_raises) ==
    IF handler_raises
    THEN Fail("Exception", <<Forward(text, sender_id, "raised")>>)
    ELSE Done(<<Forward(text, sender_id, "ok")>>)

\* on_new_message is called once; whatever it raises is caught and logged
_handle_user_message(text, sender_id, handler_raises) ==
    Done(<<Forward(text, sender_id, IF handler_raises THEN "raised" ELSE "ok")>>)

\* Mutant: the length test is off by one.
message_offbyone(m, handler_raises) ==
    IF _is_user_message(m)
    THEN LET text == Val(Val(m.message).text) IN
         IF Len(text) >= LongTextLimit
         THEN _handle_user_message(LONG_TEXT, get_user_id(m), handler_raises)
         ELSE _handle_user_message(text, get_user_id(m), handler_raises)
    ELSE IF _is_audio_message(m).exc # ""
    THEN Fail(_is_audio_message(m).exc, <<>>)
    ELSE IF _is_audio_message(m).val
    THEN LET attachment == FirstAttachment(m) IN
         IF ~Has(attachment.payload) \/ ~Has(Val(attachment.payload).url)
         THEN Fail("KeyError", <<>>)
         ELSE _handle_user_message(Val(Val(attachment.payload).url),
                                   get_user_id(m), handler_raises)
    ELSE IF _is_user_location(m).exc # ""
    THEN Fail(_is_user_location(m).exc, <<>>)
    ELSE IF _is_user_location(m).val
    THEN LET attachment == FirstAttachment(m) IN
         IF ~Has(attachment.payload) \/ ~Has(Val(attachment.payload).coordinates)
         THEN Fail("KeyError", <<>>)
         ELSE LET coordinates == Val(Val(attachment.payload).coordinates) IN
              IF ~Has(coordinates.lat) \/ ~Has(coordinates.long)
              THEN Fail("KeyError", <<>>)
              ELSE _handle_user_message(
                       FormatLatLong(Val(coordinates.lat), Val(coordinates.long)),
                       get_user_id(m), handler_raises)
    ELSE Done(<<>>)      \* "a message from facebook that we can not handle"

\* Messenger.message
message(m, handler_raises) ==
    IF _is_user_message(m)
    THEN LET text == Val(Val(m.message).text) IN
         IF Len(text) > LongTextLimit
         THEN _handle_user_message(LONG_TEXT, get_user_id(m), handler_raises)
         ELSE _handle_user_message(text, get_user_id(m), handler_raises)
    ELSE IF _is_audio_message(m).exc # ""
    THEN Fail(_is_audio_message(m).exc, <<>>)
    ELSE IF _is_audio_message(m).val
    THEN LET attachment == FirstAttachment(m) IN
         IF ~Has(attachment.payload) \/ ~Has(Val(attachment.payload).url)
         THEN Fail("KeyError", <<>>)
         ELSE _handle_user_message(Val(Val(attachment.payload).url),
                                   get_user_id(m), handler_raises)
    ELSE IF _is_user_location(m).exc # ""
    THEN Fail(_is_user_location(m).exc, <<>>)
    ELSE IF _is_user_location(m).val
    THEN LET attachment == FirstAttachment(m) IN
         IF ~Has(attachment.payload) \/ ~Has(Val(attachment.payload).coordinates)
         THEN Fail("KeyError", <<>>)
         ELSE LET coordinates == Val(Val(attachment.payload).coordinates) IN
              IF ~Has(coordinates.lat) \/ ~Has(coordinates.long)
              THEN Fail("KeyError", <<>>)
              ELSE _handle_user_message(
                       FormatLatLong(Val(coordinates.lat), Val(coordinates.long)),
                       get_user_id(m), handler_raises)
    ELSE Done(<<>>)      \* "a message from facebook that we can not handle"

\* Messenger.postback
postback(m, handler_raises) ==
    IF ~Has(Val(m.postback).payload)
    THEN Fail("KeyError", <<>>)
    ELSE _handle_user_message(Val(Val(m.postback).payload), get_user_id(m),
                              handler_raises)

\* Messenger.delivery / read / account_linking / optin: do nothing
delivery(m) == Done(<<>>)

\* MessengerBot.send_pass_thread_control: one pass_thread_control call on the
\* client, whose result is not looked at
send_pass_thread_control(recipient_id, app_id, metadata, command_fails) ==
    <<Command(recipient_id, app_id, metadata,
              IF command_fails THEN "failed" ELSE "ok")>>

\* MessengerBot.send_take_thread_control: one take_thread_control call on the
\* client
send_take_thread_control(recipient_id, metadata, command_fails) ==
    <<[op |-> "take_thread_control", text |-> <<>>, sender |-> recipient_id,
       app_id |-> 0, metadata |-> metadata,
       outcome |-> IF command_fails THEN "failed" ELSE "ok"]>>

\* Mutant: the authorization test is dropped.
handover_noauth(m, thread_control_authorized, handler_raises, command_fails) ==
    IF _is_request_thread_control(m)
    THEN LET rtc == Val(m.request_thread_control) IN
         IF ~Has(rtc.metadata)
         THEN Fail("KeyError", <<>>)
         ELSE LET sent == send_pass_thread_control(
                              get_user_id(m), Val(rtc.requested_owner_app_id),
                              Val(rtc.metadata), command_fails)
                  fwd == _handle_user_message(PASSED_THREAD_CONTROL,
                                              get_user_id(m), handler_raises)
              IN  [exc |-> fwd.exc, effects |-> sent \o fwd.effects]
    ELSE IF _is_pass_thread_control(m)
    THEN _handle_user_message(RECONNECT_USER, get_user_id(m), handler_raises)
    ELSE Done(<<>>)

\* Mutant: the command is issued twice.
handover_twice(m, thread_control_authorized, handler_raises, command_fails) ==
    IF _is_request_thread_control(m)
    THEN LET rtc == Val(m.request_thread_control) IN
         IF Val(rtc.requested_owner_app_id) \notin thread_control_authorized
         THEN Done(<<>>)
         ELSE IF ~Has(rtc.metadata)
         THEN Fail("KeyError", <<>>)
         ELSE LET sent == send_pass_thread_control(
                              get_user_id(m), Val(rtc.requested_owner_app_id),
                              Val(rtc.metadata), command_fails)
                  fwd == _handle_user_message(PASSED_THREAD_CONTROL,
                                              get_user_id(m), handler_raises)
              IN  [exc |-> fwd.exc, effects |-> sent \o sent \o fwd.effects]
    ELSE IF _is_pass_thread_control(m)
    THEN _handle_user_message(RECONNECT_USER, get_user_id(m), handler_raises)
    ELSE Done(<<>>)

\* Mutant: a pass-thread-control event is not forwarded.
handover_noreconnect(m, thread_control_authorized, handler_raises, command_fails) ==
    IF _is_request_thread_control(m)
    THEN LET rtc == Val(m.request_thread_control) IN
         IF Val(rtc.requested_owner_app_id) \notin thread_control_authorized
         THEN Done(<<>>)                  \* warning only
         ELSE IF ~Has(rtc.metadata)
         THEN Fail("KeyError", <<>>)      \* raised while the arguments are evaluated
         ELSE LET sent == send_pass_thread_control(
                              get_user_id(m), Val(rtc.requested_owner_app_id),
                              Val(rtc.metadata), command_fails)
                  fwd == _handle_user_message(PASSED_THREAD_CONTROL,
                                              get_user_id(m), handler_raises)
              IN  [exc |-> fwd.exc, effects |-> sent \o fwd.effects]
    ELSE Done(<<>>)

\* Mutant: the synthetic intent is forwarded before the command is issued.
handover_forwardfirst(m, thread_control_authorized, handler_raises, command_fails) ==
    IF _is_request_thread_control(m)
    THEN LET rtc == Val(m.request_thread_control) IN
         IF Val(rtc.requested_owner_app_id) \notin thread_control_authorized
         THEN Done(<<>>)                  \* warning only
         ELSE IF ~Has(rtc.metadata)
         THEN Fail("KeyError", <<>>)      \* raised while the arguments are evaluated
         ELSE LET sent == send_pass_thread_control(
                              get_user_id(m), Val(rtc.requested_owner_app_id),
                              Val(rtc.metadata), command_fails)
                  fwd == _handle_user_message(PASSED_THREAD_CONTROL,
                                              get_user_id(m), handler_raises)
              IN  [exc |-> fwd.exc, effects |-> fwd.effects \o sent]
    ELSE IF _is_pass_thread_control(m)
    THEN _handle_user_message(RECONNECT_USER, get_user_id(m), handler_raises)
    ELSE Done(<<>>)

\* Messenger.handover
handover(m, thread_control_authorized, handler_raises, command_fails) ==
    IF _is_request_thread_control(m)
    THEN LET rtc == Val(m.request_thread_control) IN
         IF Val(rtc.requested_owner_app_id) \notin thread_control_authorized
         THEN Done(<<>>)                  \* warning only
         ELSE IF ~Has(rtc.metadata)
         THEN Fail("KeyError", <<>>)      \* raised while the arguments are evaluated
         ELSE LET sent == send_pass_thread_control(
                              get_user_id(m), Val(rtc.requested_owner_app_id),
                              Val(rtc.metadata), command_fails)
                  fwd == _handle_user_message(PASSED_THREAD_CONTROL,
                                              get_user_id(m), handler_raises)
              IN  [exc |-> fwd.exc, effects |-> sent \o fwd.effects]
    ELSE IF _is_pass_thread_control(m)
    THEN _handle_user_message(RECONNECT_USER, get_user_id(m), handler_raises)
    ELSE Done(<<>>)

\* BaseMessenger.handle: call the method of the first kind of entry the event
\* carries, in the order message, postback, thread control, receipts
handle(m, thread_control_authorized, handler_raises, command_fails) ==
    IF HasMessage(m)
    THEN message(m, handler_raises)
    ELSE IF Has(m.postback) /\ PostbackTruthy(Val(m.postback))
    THEN postback(m, handler_raises)
    ELSE IF \/ Has(m.request_thread_control) /\ RtcTruthy(Val(m.request_thread_control))
            \/ Has(m.pass_thread_control) /\ PtcTruthy(Val(m.pass_thread_control))
    THEN handover(m, thread_control_authorized, handler_raises, command_fails)
    ELSE delivery(m)

\* request.get_json(force=True): the parsed body, or BadRequest
get_json(data) == IF data.json THEN Ret(data.payload) ELSE Raise("BadRequest")

\* The webhook view of FacebookInput.blueprint: the response it returns (or
\* the exception that leaves it), the validation outcome and the calls made.
webhook(secret, authorized, req, handler_raises, command_fails) ==
    LET signature == req.header      \* absent header: ''
        v == validate_hub_signature(secret, req.data, signature)
    IN  IF v.exc # ""
        THEN [response |-> v.exc, validated |-> "raised", effects |-> <<>>]
        ELSE IF ~v.val
        THEN [response |-> "not validated", validated |-> "false", effects |-> <<>>]
        ELSE IF get_json(req.data).exc # ""
        THEN [response |-> get_json(req.data).exc, validated |-> "true",
              effects |-> <<>>]
        ELSE LET h == handle(get_json(req.data).val, authorized,
                             handler_raises, command_fails)
             IN  [response |-> IF h.exc # "" THEN h.exc ELSE "success",
                  validated |-> "true", effects |-> h.effects]

(***************************************************************************)
(* MessengerBot                                                            *)
(***************************************************************************)
ButtonLimit == 3

\* one payload handed to messenger_client.send, with its recipient
Wire(kind, recipient_id, text, buttons, quick_replies, elements) ==
    [kind |-> kind, recipient |-> recipient_id, text |-> text,
     buttons |-> buttons, quick_replies |-> quick_replies, elements |-> elements]

\* MessengerBot.send of FBText(text=...) / attachments.Image(url=...)
send(recipient_id, kind, text) == Wire(kind, recipient_id, text, <<>>, <<>>, <<>>)

NL == "\n"

\* str.split("\n\n"): cut at each leftmost occurrence of two newlines
RECURSIVE split_paragraphs(_)
split_paragraphs(s) ==
    IF \A i \in 1..(Len(s) - 1) : ~(s[i] = NL /\ s[i+1] = NL)
    THEN <<s>>
    ELSE LET i == CHOOSE k \in 1..(Len(s) - 1) :
                      /\ s[k] = NL /\ s[k+1] = NL
                      /\ \A j \in 1..(k-1) : ~(s[j] = NL /\ s[j+1] = NL)
         IN  <<SubSeq(s, 1, i-1)>> \o split_paragraphs(SubSeq(s, i+2, Len(s)))

\* Mutant: empty paragraphs are not sent.
send_text_message_skipempty(recipient_id, text) ==
    LET parts == SelectSeq(split_paragraphs(text), LAMBDA part : part # <<>>)
    IN  [i \in 1..Len(parts) |-> send(recipient_id, "text", parts[i])]

\* MessengerBot.send_text_message: the payloads sent
send_text_message(recipient_id, text) ==
    LET parts == split_paragraphs(text)
    IN  [i \in 1..Len(parts) |-> send(recipient_id, "text", parts[i])]

\* MessengerBot.send_image_url
send_image_url(recipient_id, image_url) == <<send(recipient_id, "image", image_url)>>

\* Mutant: every button is made a postback button.
_add_postback_info_always(buttons) ==
    [i \in 1..Len(buttons) |-> [buttons[i] EXCEPT !.type = Some("postback")]]

\* MessengerBot._add_postback_info: the list after the in-place change
_add_postback_info(buttons) ==
    [i \in 1..Len(buttons) |->
        IF ~Has(buttons[i].type)
        THEN [buttons[i] EXCEPT !.type = Some("postback")]
        ELSE buttons[i]]

\* Mutant: replies that have a content type lose it to "text".
_add_text_info_always(quick_replies) ==
    [i \in 1..Len(quick_replies) |->
        [quick_replies[i] EXCEPT !.content_type = Some("text")]]

\* MessengerBot._add_text_info: the list after the in-place change
_add_text_info(quick_replies) ==
    [i \in 1..Len(quick_replies) |->
        IF ~Has(quick_replies[i].content_type)
        THEN [quick_replies[i] EXCEPT !.content_type = Some("text")]
        ELSE quick_replies[i]]

\* the result of a MessengerBot method: the exception that left it, the
\* payloads sent, and the caller's lists as the call leaves them
BotResult(exc, wires, buttons, quick_replies, elements) ==
    [exc |-> exc, sent |-> wires, buttons |-> buttons,
     quick_replies |-> quick_replies, elements |-> elements]

\* Mutant: the button limit is off by one.
send_text_with_buttons_limit4(recipient_id, text, buttons) ==
    IF Len(buttons) > ButtonLimit + 1
    THEN BotResult("", send_text_message(recipient_id, text), buttons, <<>>, <<>>)
    ELSE LET typed == _add_postback_info(buttons)
         IN  BotResult("", <<Wire("button", recipient_id, text, typed, <<>>, <<>>)>>,
                       typed, <<>>, <<>>)

\* MessengerBot.send_text_with_buttons
send_text_with_buttons(recipient_id, text, buttons) ==
    IF Len(buttons) > ButtonLimit
    THEN BotResult("", send_text_message(recipient_id, text), buttons, <<>>, <<>>)
    ELSE LET typed == _add_postback_info(buttons)
         IN  BotResult("", <<Wire("button", recipient_id, text, typed, <<>>, <<>>)>>,
                       typed, <<>>, <<>>)

\* MessengerBot.send_quick_replies
send_quick_replies(recipient_id, text, quick_replies) ==
    LET typed == _add_text_info(quick_replies)
    IN  BotResult("", <<Wire("quick_replies", recipient_id, text, <<>>, typed, <<>>)>>,
                  <<>>, typed, <<>>)

\* MessengerBot.send_custom_message: the loop changes the buttons of the
\* elements in turn and stops with KeyError at an element without 'buttons'
send_custom_message(recipient_id, elements) ==
    LET bad == {i \in 1..Len(elements) : ~Has(elements[i].buttons)}
        stop == IF bad = {} THEN Len(elements) + 1
                ELSE CHOOSE i \in bad : \A j \in bad : i <= j
        typed == [i \in 1..Len(elements) |->
                     IF i < stop
                     THEN [elements[i] EXCEPT
                              !.buttons = Some(_add_postback_info(Val(elements[i].buttons)))]
                     ELSE elements[i]]
    IN  IF bad # {}
        THEN BotResult("KeyError", <<>>, <<>>, <<>>, typed)
        ELSE BotResult("", <<Wire("generic", recipient_id, <<>>, <<>>, <<>>, typed)>>,
                       <<>>, <<>>, typed)

(***************************************************************************)
(* Handover state of a conversation                                        *)
(***************************************************************************)
OwnedByBot == 0          \* OwnedByApp(a) is the app id a > 0

\* The thread's owner after a request or a call of the output channel: a
\* pass-thread-control command hands the thread to the app it names, a
\* take-thread-control command and a handled pass-thread-control event
\* return it to the bot.
NextOwner(owner, fx) ==
    [s \in DOMAIN owner |->
        IF \E i \in 1..Len(fx) : fx[i].op = "pass_thread_control" /\ fx[i].sender = s
        THEN LET i == CHOOSE k \in 1..Len(fx) :
                          fx[k].op = "pass_thread_control" /\ fx[k].sender = s
             IN  fx[i].app_id
        ELSE IF \E i \in 1..Len(fx) :
                    \/ /\ fx[i].op = "on_new_message"
                       /\ fx[i].text = RECONNECT_USER
                       /\ fx[i].sender = s
                    \/ /\ fx[i].op = "take_thread_control"
                       /\ fx[i].sender = s
        THEN OwnedByBot
        ELSE owner[s]]

(***************************************************************************)
(* Inputs                                                                  *)
(***************************************************************************)
Secrets == {"s1", "s2"}
Senders == {"u1", "u2"}
AppIds == {1, 2}
AuthorizedSets == {{}, {1}}

URL == <<"h", "t", "t", "p", ":", "/", "/", "a">>
PAYLOAD == <<"P", "A", "Y">>
METADATA == <<"m", "e", "t", "a">>

TextLens == {0, 1} \cup (LongTextLimit .. (LongTextLimit + MaxExtra))
Texts == {MkText("a", n) : n \in TextLens}

Coords == {[lat |-> Some(52), long |-> Some(13)],
           [lat |-> Some(-7), long |-> Some(110)],
           [lat |-> Some(1), long |-> Absent]}
Payloads == {[url |-> Absent, coordinates |-> Absent],
             [url |-> Some(URL), coordinates |-> Absent]}
            \cup {[url |-> Absent, coordinates |-> Some(c)] : c \in Coords}
Opt(S) == {Absent} \cup {Some(x) : x \in S}
Attachments == [type : Opt({"audio", "location", "image"}), payload : Opt(Payloads)]
AttachmentLists == {<<>>} \cup {<<a>> : a \in Attachments}
Messages == [text : Opt(Texts), is_echo : Opt(BOOLEAN),
             attachments : Opt(AttachmentLists)]

CoreMessages ==
    {[text |-> Some(MkText("a", 1)), is_echo |-> Absent, attachments |-> Absent],
     [text |-> Some(MkText("a", 1)), is_echo |-> Some(TRUE), attachments |-> Absent],
     [text |-> Absent, is_echo |-> Absent,
      attachments |-> Some(<<[type |-> Some("audio"),
                              payload |-> Some([url |-> Some(URL),
                                                coordinates |-> Absent])]>>)],
     [text |-> Absent, is_echo |-> Absent,
      attachments |-> Some(<<[type |-> Some("image"), payload |-> Absent]>>)]}

Postbacks == [payload : Opt({PAYLOAD}), title : BOOLEAN]
Rtcs == [requested_owner_app_id : Opt(AppIds), metadata : Opt({METADATA})]
Ptcs == {[new_owner_app_id |-> Some(1), metadata |-> Absent],
         [new_owner_app_id |-> Some(2), metadata |-> Some(METADATA)],
         [new_owner_app_id |-> Absent, metadata |-> Some(METADATA)]}

\* events carrying a message only, and events carrying several kinds of entry
Events ==
    [sender : [id : Senders], message : Opt(Messages), postback : {Absent},
     request_thread_control : {Absent}, pass_thread_control : {Absent}]
    \cup
    [sender : [id : Senders], message : Opt(CoreMessages), postback : Opt(Postbacks),
     request_thread_control : Opt(Rtcs), pass_thread_control : Opt(Ptcs)]

NoEvent == [sender |-> [id |-> "u1"], message |-> Absent, postback |-> Absent,
            request_thread_control |-> Absent, pass_thread_control |-> Absent]

\* request bodies: JSON events, and a body that is not JSON
Garbage == [json |-> FALSE, payload |-> NoEvent]
Bodies == {Garbage} \cup {[json |-> TRUE, payload |-> e] : e \in Events}

\* headers sent with a body: signed with either secret and algorithm, signed
\* for another body, malformed, or naming an unknown algorithm
HeadersFor(data) ==
    {<<Name(a), Eq, hexdigest(a, k, data)>> : a \in hashlib, k \in Secrets}
    \cup {<<Name("sha1"), Eq, hexdigest("sha1", k, Garbage)>> : k \in Secrets}
    \cup {<<>>, <<Name("sha1")>>, <<Name("sha1"), Eq>>, <<Name("sha1"), Eq, Eq>>,
          <<Name("foo"), Eq, hexdigest("sha1", "s1", data)>>}

NoRequest == [header |-> <<>>, data |-> Garbage]
NoCall == [op |-> "none", recipient_id |-> "u1", text |-> <<>>,
           buttons |-> <<>>, quick_replies |-> <<>>, elements |-> <<>>,
           exc |-> "", buttons_after |-> <<>>, quick_replies_after |-> <<>>,
           elements_after |-> <<>>]
NoGet == [op |-> "none", verify_token |-> Absent, challenge |-> Absent,
          response |-> "none"]
Workers == {1, 2}
NoWorker == [pc |-> "free", request |-> NoRequest, handler_raises |-> FALSE,
             command_fails |-> FALSE, validated |-> "none", response |-> "none",
             effects |-> <<>>]
NoWorkers == [w \in Workers |-> NoWorker]
NoMessages == [o \in Workers |-> NoEvent]
NoSig == [app_secret |-> "s1", request_payload |-> Garbage,
          hub_signature_header |-> <<>>, result |-> "none"]

(***************************************************************************)
(* The webhook as a state machine                                          *)
(***************************************************************************)
Init ==
    /\ workers = NoWorkers
    /\ last_message = NoMessages
    /\ fb_verify = Some("v1")
    /\ get = NoGet
    /\ fb_secret \in Secrets
    /\ fb_thread_control_authorized \in AuthorizedSets
    /\ pc = "idle"
    /\ request = NoRequest
    /\ validated = "none"
    /\ response = "none"
    /\ effects = <<>>
    /\ thread_owner = [s \in Senders |-> OwnedByBot]
    /\ out = NoCall
    /\ payloads = <<>>
    /\ sig = NoSig

\* POST /webhook
Webhook ==
    /\ pc = "idle"
    /\ \E data \in Bodies :
       \E header \in HeadersFor(data) :
       \E handler_raises \in BOOLEAN, command_fails \in BOOLEAN :
          LET req == [header |-> header, data |-> data]
              r == webhook(fb_secret, fb_thread_control_authorized, req,
                           handler_raises, command_fails)
          IN  /\ request' = req
              /\ validated' = r.validated
              /\ response' = r.response
              /\ effects' = r.effects
              /\ thread_owner' = NextOwner(thread_owner, r.effects)
    /\ pc' = "done"
    /\ UNCHANGED <<workers, last_message, fb_verify, get, fb_secret, fb_thread_control_authorized, out, payloads, sig>>

\* the response has been delivered; the server waits for the next request
Finish ==
    /\ pc = "done"
    /\ pc' = "idle"
    /\ request' = NoRequest
    /\ validated' = "none"
    /\ response' = "none"
    /\ effects' = <<>>
    /\ out' = NoCall
    /\ payloads' = <<>>
    /\ get' = NoGet
    /\ UNCHANGED <<workers, last_message, fb_verify, fb_secret, fb_thread_control_authorized, thread_owner, sig>>

\* what a thread-control call of the output channel leaves behind
ControlCalled(op, recipient_id, fx) ==
    /\ pc = "idle"
    /\ pc' = "done"
    /\ out' = [NoCall EXCEPT !.op = op, !.recipient_id = recipient_id]
    /\ effects' = fx
    /\ thread_owner' = NextOwner(thread_owner, fx)
    /\ UNCHANGED <<workers, last_message, fb_verify, get, fb_secret, fb_thread_control_authorized,
                   request, validated, response, payloads, sig>>

\* the handler hands a thread to an app through its output channel
SendPassThreadControl ==
    \E recipient_id \in Senders, app_id \in AppIds, command_fails \in BOOLEAN :
        ControlCalled("send_pass_thread_control", recipient_id,
                      send_pass_thread_control(recipient_id, app_id, METADATA,
                                               command_fails))

\* the handler takes a thread back through its output channel
SendTakeThreadControl ==
    \E recipient_id \in Senders, command_fails \in BOOLEAN :
        ControlCalled("send_take_thread_control", recipient_id,
                      send_take_thread_control(recipient_id, METADATA, command_fails))

Next == Webhook \/ SendPassThreadControl \/ SendTakeThreadControl \/ Finish

Spec == Init /\ [][Next]_vars

(***************************************************************************)
(* validate_hub_signature on its own                                       *)
(***************************************************************************)
Tokens ==
    {Eq} \cup {Name(n) : n \in hashlib \cup {"foo"}}
    \cup {hexdigest(a, k, b) : a \in hashlib, k \in Secrets,
                               b \in {Garbage, [json |-> TRUE, payload |-> NoEvent]}}

RECURSIVE SeqsUpTo(_, _)
SeqsUpTo(S, n) ==
    IF n = 0 THEN {<<>>}
    ELSE LET shorter == SeqsUpTo(S, n - 1)
         IN  shorter \cup {Append(q, x) : q \in shorter, x \in S}

SigHeaders == SeqsUpTo(Tokens, MaxHeaderLen)
SigBodies == {Garbage, [json |-> TRUE, payload |-> NoEvent]}

InitSig ==
    /\ workers = NoWorkers
    /\ last_message = NoMessages
    /\ fb_verify = Some("v1")
    /\ get = NoGet
    /\ fb_secret = "s1"
    /\ fb_thread_control_authorized = {}
    /\ pc = "idle"
    /\ request = NoRequest
    /\ validated = "none"
    /\ response = "none"
    /\ effects = <<>>
    /\ thread_owner = [s \in Senders |-> OwnedByBot]
    /\ out = NoCall
    /\ payloads = <<>>
    /\ sig \in [app_secret : Secrets, request_payload : SigBodies,
                hub_signature_header : SigHeaders, result : {"none"}]

\* one call of validate_hub_signature
Validate ==
    /\ sig.result = "none"
    /\ LET v == validate_hub_signature(sig.app_secret, sig.request_payload,
                                       sig.hub_signature_header)
       IN  sig' = [sig EXCEPT !.result =
                       IF v.exc # "" THEN v.exc
                       ELSE IF v.val THEN "True" ELSE "False"]
    /\ UNCHANGED <<workers, last_message, fb_verify, get, fb_secret, fb_thread_control_authorized, pc, request,
                   validated, response, effects, thread_owner, out, payloads>>

NextSig == Validate

SpecSig == InitSig /\ [][NextSig]_vars

(***************************************************************************)
(* The output channel as a state machine                                   *)
(***************************************************************************)
ButtonSet == {[type |-> Absent, title |-> "A"],
              [type |-> Absent, title |-> "B"],
              [type |-> Some("postback"), title |-> "A"],
              [type |-> Some("web_url"), title |-> "B"]}
ButtonLists == SeqsUpTo(ButtonSet, MaxButtons)
ButtonTexts == {<<"h", "i">>, <<"a", NL, NL, "b">>}

ReplySet == {[content_type |-> Absent, title |-> "A"],
             [content_type |-> Some("text"), title |-> "B"],
             [content_type |-> Some("location"), title |-> "A"]}
ReplyLists == SeqsUpTo(ReplySet, MaxReplies)

ElementButtonSet == {[type |-> Absent, title |-> "A"],
                     [type |-> Some("postback"), title |-> "A"],
                     [type |-> Some("web_url"), title |-> "B"]}
ElementSet == [title : {"E"},
               buttons : Opt(SeqsUpTo(ElementButtonSet, MaxElementButtons))]
ElementLists == SeqsUpTo(ElementSet, MaxElements)

MessageTexts == SeqsUpTo({"a", NL}, MaxMessageLen)

InitOut ==
    /\ workers = NoWorkers
    /\ last_message = NoMessages
    /\ fb_verify = Some("v1")
    /\ get = NoGet
    /\ fb_secret = "s1"
    /\ fb_thread_control_authorized = {}
    /\ pc = "idle"
    /\ request = NoRequest
    /\ validated = "none"
    /\ response = "none"
    /\ effects = <<>>
    /\ thread_owner = [s \in Senders |-> OwnedByBot]
    /\ out = NoCall
    /\ payloads = <<>>
    /\ sig = NoSig

\* what a call of a MessengerBot method leaves behind
Called(op, recipient_id, text, buttons, quick_replies, elements, r) ==
    /\ pc = "idle"
    /\ pc' = "done"
    /\ out' = [op |-> op, recipient_id |-> recipient_id, text |-> text,
               buttons |-> buttons, quick_replies |-> quick_replies,
               elements |-> elements, exc |-> r.exc,
               buttons_after |-> r.buttons,
               quick_replies_after |-> r.quick_replies,
               elements_after |-> r.elements]
    /\ payloads' = r.sent
    /\ UNCHANGED <<workers, last_message, fb_verify, get, fb_secret, fb_thread_control_authorized, request, validated,
                   response, effects, thread_owner, sig>>

SendTextMessage ==
    \E recipient_id \in Senders, text \in MessageTexts :
        Called("send_text_message", recipient_id, text, <<>>, <<>>, <<>>,
               BotResult("", send_text_message(recipient_id, text), <<>>, <<>>, <<>>))

SendImageUrl ==
    \E recipient_id \in Senders :
        Called("send_image_url", recipient_id, URL, <<>>, <<>>, <<>>,
               BotResult("", send_image_url(recipient_id, URL), <<>>, <<>>, <<>>))

SendTextWithButtons ==
    \E recipient_id \in Senders, text \in ButtonTexts, buttons \in ButtonLists :
        Called("send_text_with_buttons", recipient_id, text, buttons, <<>>, <<>>,
               send_text_with_buttons(recipient_id, text, buttons))

SendQuickReplies ==
    \E recipient_id \in Senders, text \in ButtonTexts, quick_replies \in ReplyLists :
        Called("send_quick_replies", recipient_id, text, <<>>, quick_replies, <<>>,
               send_quick_replies(recipient_id, text, quick_replies))

SendCustomMessage ==
    \E recipient_id \in Senders, elements \in ElementLists :
        Called("send_custom_message", recipient_id, <<>>, <<>>, <<>>, elements,
               send_custom_message(recipient_id, elements))

NextOut ==
    \/ SendTextMessage
    \/ SendImageUrl
    \/ SendTextWithButtons
    \/ SendQuickReplies
    \/ SendCustomMessage
    \/ Finish

SpecOut == InitOut /\ [][NextOut]_vars

(***************************************************************************)
(* The GET routes as a state machine                                       *)
(***************************************************************************)
VerifyTokens == {"v1", "v2", "v3"}
Challenges == {"c1", "c2", "c3", "c4", "c5", "c6"}

\* token_verification: request.args.get(...) is None for a missing
\* parameter, as fb_verify is when no token is configured; a view that
\* returns None is answered by a TypeError of the framework
token_verification(verify, args) ==
    IF args.verify_token = verify
    THEN IF Has(args.challenge) THEN Val(args.challenge) ELSE "TypeError"
    ELSE "failure, invalid token"

\* health: jsonify({"status": "ok"})
health == "ok"

InitGet ==
    /\ workers = NoWorkers
    /\ last_message = NoMessages
    /\ fb_verify \in Opt(VerifyTokens)
    /\ get = NoGet
    /\ fb_secret = "s1"
    /\ fb_thread_control_authorized = {}
    /\ pc = "idle"
    /\ request = NoRequest
    /\ validated = "none"
    /\ response = "none"
    /\ effects = <<>>
    /\ thread_owner = [s \in Senders |-> OwnedByBot]
    /\ out = NoCall
    /\ payloads = <<>>
    /\ sig = NoSig

\* GET /webhook
TokenVerification ==
    /\ pc = "idle"
    /\ pc' = "done"
    /\ \E verify_token \in Opt(VerifyTokens), challenge \in Opt(Challenges) :
          LET args == [verify_token |-> verify_token, challenge |-> challenge]
          IN  get' = [op |-> "token_verification", verify_token |-> verify_token,
                      challenge |-> challenge,
                      response |-> token_verification(fb_verify, args)]
    /\ UNCHANGED <<workers, last_message, fb_verify, fb_secret, fb_thread_control_authorized, request,
                   validated, response, effects, thread_owner, out, payloads, sig>>

\* GET /
Health ==
    /\ pc = "idle"
    /\ pc' = "done"
    /\ get' = [op |-> "health", verify_token |-> Absent, challenge |-> Absent,
               response |-> health]
    /\ UNCHANGED <<workers, last_message, fb_verify, fb_secret, fb_thread_control_authorized, request,
                   validated, response, effects, thread_owner, out, payloads, sig>>

NextGet == TokenVerification \/ Health \/ Finish

SpecGet == InitGet /\ [][NextGet]_vars

(***************************************************************************)
(* Concurrently handled POSTs                                              *)
(***************************************************************************)
\* Mutant: one Messenger serves every request.
messenger_shared(w) == 1

\* the Messenger that handles the request of worker w: webhook() constructs
\* one for every request
messenger_of(w) == w

\* the event as its handlers see it: get_user_id() reads the sender from the
\* Messenger's last_message
WithSender(m, last) == [m EXCEPT !.sender = last.sender]

\* the events of the concurrent requests: user texts of two senders, an
\* authorized and an unauthorized thread-control request, a pass of control
ConcEvents ==
    {[NoEvent EXCEPT !.sender = [id |-> s],
                     !.message = Some([text |-> Some(MkText("a", 1)),
                                       is_echo |-> Absent, attachments |-> Absent])]
        : s \in Senders}
    \cup {[NoEvent EXCEPT !.sender = [id |-> "u1"],
                          !.request_thread_control =
                              Some([requested_owner_app_id |-> Some(1),
                                    metadata |-> Some(METADATA)])],
          [NoEvent EXCEPT !.sender = [id |-> "u2"],
                          !.request_thread_control =
                              Some([requested_owner_app_id |-> Some(2),
                                    metadata |-> Some(METADATA)])],
          [NoEvent EXCEPT !.sender = [id |-> "u2"],
                          !.pass_thread_control =
                              Some([new_owner_app_id |-> Some(1),
                                    metadata |-> Absent])]}
ConcBodies == {Garbage} \cup {[json |-> TRUE, payload |-> e] : e \in ConcEvents}
ConcRequests ==
    UNION {{[header |-> <<>>, data |-> b],
            [header |-> <<Name("sha1"), Eq, hexdigest("sha1", "s1", b)>>, data |-> b]}
           : b \in ConcBodies}

InitConc ==
    /\ workers = NoWorkers
    /\ last_message = NoMessages
    /\ fb_verify = Some("v1")
    /\ get = NoGet
    /\ fb_secret \in Secrets
    /\ fb_thread_control_authorized \in AuthorizedSets
    /\ pc = "idle"
    /\ request = NoRequest
    /\ validated = "none"
    /\ response = "none"
    /\ effects = <<>>
    /\ thread_owner = [s \in Senders |-> OwnedByBot]
    /\ out = NoCall
    /\ payloads = <<>>
    /\ sig = NoSig

\* what a step of worker w leaves unchanged
OnlyWorker(w, new) ==
    /\ workers' = [workers EXCEPT ![w] = new]
    /\ UNCHANGED <<fb_verify, get, fb_secret, fb_thread_control_authorized, pc,
                   request, validated, response, effects, thread_owner, out,
                   payloads, sig>>

\* a POST arrives and is given to a free worker
Accept(w) ==
    /\ workers[w].pc = "free"
    /\ \E req \in ConcRequests :
          OnlyWorker(w, [workers[w] EXCEPT !.pc = "validate", !.request = req])
    /\ UNCHANGED last_message

\* webhook(): the signature check and its early return
CheckSignature(w) ==
    /\ workers[w].pc = "validate"
    /\ LET v == validate_hub_signature(fb_secret, workers[w].request.data,
                                       workers[w].request.header)
       IN  OnlyWorker(w,
             IF v.exc # ""
             THEN [workers[w] EXCEPT !.pc = "done", !.validated = "raised",
                                     !.response = v.exc]
             ELSE IF ~v.val
             THEN [workers[w] EXCEPT !.pc = "done", !.validated = "false",
                                     !.response = "not validated"]
             ELSE [workers[w] EXCEPT !.pc = "construct", !.validated = "true"])
    /\ UNCHANGED last_message

\* webhook(): the Messenger of the request is constructed and the body parsed
Construct(w) ==
    /\ workers[w].pc = "construct"
    /\ LET j == get_json(workers[w].request.data)
       IN  OnlyWorker(w,
             IF j.exc # ""
             THEN [workers[w] EXCEPT !.pc = "done", !.response = j.exc]
             ELSE [workers[w] EXCEPT !.pc = "handle"])
    /\ UNCHANGED last_message

\* BaseMessenger.handle: the event is stored in the Messenger's last_message
SetLastMessage(w) ==
    /\ workers[w].pc = "handle"
    /\ last_message' = [last_message EXCEPT
                            ![messenger_of(w)] = workers[w].request.data.payload]
    /\ OnlyWorker(w, [workers[w] EXCEPT !.pc = "dispatch"])

\* BaseMessenger.handle: the event's handler runs, reading the sender from
\* last_message, and the view returns
Dispatch(w) ==
    /\ workers[w].pc = "dispatch"
    /\ \E handler_raises \in BOOLEAN, command_fails \in BOOLEAN :
          LET h == handle(WithSender(workers[w].request.data.payload,
                                     last_message[messenger_of(w)]),
                          fb_thread_control_authorized,
                          handler_raises, command_fails)
          IN  OnlyWorker(w, [workers[w] EXCEPT
                                !.pc = "done",
                                !.handler_raises = handler_raises,
                                !.command_fails = command_fails,
                                !.effects = h.effects,
                                !.response = IF h.exc # "" THEN h.exc
                                             ELSE "success"])
    /\ UNCHANGED last_message

\* the response is delivered and the worker is free again
Respond(w) ==
    /\ workers[w].pc = "done"
    /\ OnlyWorker(w, NoWorker)
    /\ UNCHANGED last_message

NextConc ==
    \E w \in Workers :
        \/ Accept(w)
        \/ CheckSignature(w)
        \/ Construct(w)
        \/ SetLastMessage(w)
        \/ Dispatch(w)
        \/ Respond(w)
SpecConc == InitConc /\ [][NextConc]_vars

(***************************************************************************)
(* Properties                                                              *)
(***************************************************************************)
Answered == pc = "done" /\ validated # "none"
Event == request.data.payload
\* the request passed signature validation and body parsing
Authenticated == Answered /\ validated = "true" /\ request.data.json

Forwards(fx) == SelectSeq(fx, LAMBDA e : e.op = "on_new_message")
Commands(fx) == SelectSeq(fx, LAMBDA e : e.op = "pass_thread_control")

\* C1: a POST whose signature validation does not succeed is answered with
\* the rejection response "not validated", and no handler or platform call
\* is made for it.
C1_InvalidSignatureRejected ==
    (Answered /\ validated # "true") =>
        (response = "not validated" /\ effects = <<>>)

\* the header is "<alg>=<hexdigest>" with a supported alg and the digest of
\* the payload under the secret
ExactMatch(secret, payload, header) ==
    \E a \in hashlib : header = <<Name(a), Eq, hexdigest(a, secret, payload)>>

\* C2: validate_hub_signature returns False, and does not raise, for every
\* header that is not an exact match: no "=" or several, an unsupported
\* algorithm, or a digest that differs from the computed one.
C2_BadHeaderReturnsFalse ==
    (/\ sig.result # "none"
     /\ ~ExactMatch(sig.app_secret, sig.request_payload, sig.hub_signature_header))
        => sig.result = "False"

\* C3: for the header "sha1=" + hmac(secret, body), validation of body'
\* under the same secret returns True if body' = body and False otherwise.
C3_SignedBodyAccepted ==
    \A body \in SigBodies :
        (/\ sig.result # "none"
         /\ sig.hub_signature_header =
                <<Name("sha1"), Eq, hexdigest("sha1", sig.app_secret, body)>>)
            => sig.result = (IF sig.request_payload = body THEN "True" ELSE "False")

C3_Witness ==
    /\ sig.result = "True"
    /\ sig.hub_signature_header =
           <<Name("sha1"), Eq, hexdigest("sha1", sig.app_secret, sig.request_payload)>>

HandlerRaised == \E i \in 1..Len(effects) :
                     effects[i].op = "on_new_message" /\ effects[i].outcome = "raised"

\* C4: when the downstream handler raises while a forwarded event is being
\* processed, the exception does not leave the webhook: the request is
\* answered with "success".
C4_HandlerFailureSwallowed ==
    (Answered /\ HandlerRaised) => response = "success"

C4_Witness ==
    /\ Answered /\ HandlerRaised
    /\ _is_user_message(Event)
    /\ response = "success"

\* C5: every request that passes signature validation and body parsing is
\* answered with "success".
C5_AuthenticatedAlwaysSuccess ==
    Authenticated => response = "success"

\* C6: handling is total: for every event, whatever the handler and the
\* platform do, the dispatch of the event completes without an exception.
C6_ClassificationTotal ==
    (Answered /\ request.data.json) =>
        \A handler_raises \in BOOLEAN, command_fails \in BOOLEAN :
            handle(Event, fb_thread_control_authorized,
                   handler_raises, command_fails).exc = ""

\* the event carries a message with a text of at least one character that is
\* not flagged as an echo
NonEchoText(m) ==
    /\ Has(m.message)
    /\ Has(Val(m.message).text)
    /\ Len(Val(Val(m.message).text)) >= 1
    /\ Val(m.message).is_echo \in {Absent, Some(FALSE)}

\* C7: a non-echo message with a text of more than 512 characters is
\* forwarded once as '/long_text'; one of 1..512 characters is forwarded
\* once, unchanged.
C7_LongTextLimit ==
    (Authenticated /\ NonEchoText(Event)) =>
        /\ Len(effects) = 1
        /\ effects[1].op = "on_new_message"
        /\ effects[1].sender = Event.sender.id
        /\ effects[1].text = (IF Len(Val(Val(Event.message).text)) > 512
                              THEN LONG_TEXT
                              ELSE Val(Val(Event.message).text))

C7_Witness ==
    /\ Authenticated /\ NonEchoText(Event)
    /\ Len(Val(Val(Event.message).text)) = 512
    /\ Len(effects) = 1 /\ Len(effects[1].text) = 512

\* The kinds of event, as predicates on the event alone.
IsUserText(m) ==
    /\ Has(m.message) /\ Has(Val(m.message).text)
    /\ Val(Val(m.message).text) # <<>>
    /\ Val(m.message).is_echo \in {Absent, Some(FALSE)}
FirstAttachmentType(m) ==
    IF /\ Has(m.message) /\ Has(Val(m.message).attachments)
       /\ Val(Val(m.message).attachments) # <<>>
       /\ Has(Val(Val(m.message).attachments)[1].type)
    THEN Val(Val(Val(m.message).attachments)[1].type)
    ELSE "none"
IsAudioAttachment(m) ==
    /\ FirstAttachmentType(m) = "audio"
    /\ Has(FirstAttachment(m).payload)
    /\ Has(Val(FirstAttachment(m).payload).url)
IsLocationAttachment(m) ==
    /\ FirstAttachmentType(m) = "location"
    /\ Has(FirstAttachment(m).payload)
    /\ Has(Val(FirstAttachment(m).payload).coordinates)
    /\ Has(Val(Val(FirstAttachment(m).payload).coordinates).lat)
    /\ Has(Val(Val(FirstAttachment(m).payload).coordinates).long)
IsPostback(m) == Has(m.postback) /\ Has(Val(m.postback).payload)
IsRequestThreadControl(m) ==
    /\ Has(m.request_thread_control)
    /\ Has(Val(m.request_thread_control).requested_owner_app_id)
    /\ Has(Val(m.request_thread_control).metadata)
IsPassThreadControl(m) ==
    /\ Has(m.pass_thread_control)
    /\ Has(Val(m.pass_thread_control).new_owner_app_id)

\* the earliest kind that matches, in the order of the classification
Kind(m) ==
    IF IsUserText(m) THEN "UserText"
    ELSE IF IsAudioAttachment(m) THEN "AudioAttachment"
    ELSE IF IsLocationAttachment(m) THEN "LocationAttachment"
    ELSE IF IsPostback(m) THEN "Postback"
    ELSE IF IsRequestThreadControl(m) THEN "RequestThreadControl"
    ELSE IF IsPassThreadControl(m) THEN "PassThreadControl"
    ELSE "Ignored"

\* the normalized text of an event of one of the four forwarded kinds
NormalizedText(m) ==
    CASE Kind(m) = "UserText" ->
            IF Len(Val(Val(m.message).text)) > 512 THEN LONG_TEXT
            ELSE Val(Val(m.message).text)
      [] Kind(m) = "AudioAttachment" -> Val(Val(FirstAttachment(m).payload).url)
      [] Kind(m) = "LocationAttachment" ->
            LET c == Val(Val(FirstAttachment(m).payload).coordinates)
            IN  IntStr(Val(c.lat)) \o <<" ">> \o IntStr(Val(c.long))
      [] Kind(m) = "Postback" -> Val(Val(m.postback).payload)

\* C8: the kinds are tried in the order UserText, AudioAttachment,
\* LocationAttachment, Postback, RequestThreadControl, PassThreadControl and
\* the first match wins: an event whose earliest kind is one of the first
\* four is forwarded once, with the normalized text of that kind, and an
\* event matching no kind is not forwarded.
C8_FirstMatchWins ==
    Authenticated =>
        /\ Kind(Event) \in {"UserText", "AudioAttachment",
                            "LocationAttachment", "Postback"}
              => /\ Len(Forwards(effects)) = 1
                 /\ Forwards(effects)[1].text = NormalizedText(Event)
        /\ Kind(Event) = "Ignored" => Forwards(effects) = <<>>

\* the event carries a thread-control request, with its metadata, and no
\* message or postback entry
RequestThreadControlEvent(m) ==
    /\ m.message = Absent /\ m.postback = Absent
    /\ IsRequestThreadControl(m)
RequestingApp(m) == Val(Val(m.request_thread_control).requested_owner_app_id)

\* C9: a thread-control request of an authorized app results in exactly one
\* pass-thread-control command, for the event's sender, naming the
\* requesting app and the event's metadata, and in exactly one forward, of
\* '/passed_thread_control'.
C9_AuthorizedRequestPassesControl ==
    (/\ Authenticated
     /\ RequestThreadControlEvent(Event)
     /\ RequestingApp(Event) \in fb_thread_control_authorized)
        => /\ Len(Commands(effects)) = 1
           /\ Commands(effects)[1].app_id = RequestingApp(Event)
           /\ Commands(effects)[1].metadata =
                  Val(Val(Event.request_thread_control).metadata)
           /\ Commands(effects)[1].sender = Event.sender.id
           /\ Len(Forwards(effects)) = 1
           /\ Forwards(effects)[1].text = PASSED_THREAD_CONTROL
           /\ Forwards(effects)[1].sender = Event.sender.id

C9_Witness ==
    /\ Authenticated
    /\ RequestThreadControlEvent(Event)
    /\ RequestingApp(Event) \in fb_thread_control_authorized
    /\ Len(effects) = 2
    /\ response = "success"

\* C10: a thread-control request of an app that is not authorized issues no
\* command, forwards nothing, and leaves the handover state of every
\* conversation as it was.
C10_UnauthorizedRequestIgnored ==
    [][(/\ pc = "idle" /\ pc' = "done"
        /\ validated' = "true" /\ request'.data.json
        /\ RequestThreadControlEvent(request'.data.payload)
        /\ RequestingApp(request'.data.payload) \notin fb_thread_control_authorized)
           => (effects' = <<>> /\ thread_owner' = thread_owner)]_vars

C10_Witness ==
    /\ Authenticated
    /\ RequestThreadControlEvent(Event)
    /\ RequestingApp(Event) \notin fb_thread_control_authorized
    /\ RequestingApp(Event) # 0
    /\ effects = <<>>
    /\ thread_owner[Event.sender.id] # OwnedByBot

\* the event carries a thread-control pass naming the new owner, and no
\* message, postback or thread-control request entry
PassThreadControlEvent(m) ==
    /\ m.message = Absent /\ m.postback = Absent
    /\ m.request_thread_control = Absent
    /\ IsPassThreadControl(m)

\* C11: a pass-thread-control event results in exactly one forward, of
\* '/reconnect_user' for the event's sender, and in no pass-thread-control
\* command, whoever owned the thread before and whichever app the event names.
C11_PassThreadControlReconnects ==
    (Authenticated /\ PassThreadControlEvent(Event))
        => /\ Len(Forwards(effects)) = 1
           /\ Forwards(effects)[1].text = RECONNECT_USER
           /\ Forwards(effects)[1].sender = Event.sender.id
           /\ Commands(effects) = <<>>

C11_Witness ==
    /\ Authenticated /\ PassThreadControlEvent(Event)
    /\ Val(Val(Event.pass_thread_control).new_owner_app_id) = 2
    /\ Len(effects) = 1 /\ effects[1].text = RECONNECT_USER
    /\ \E s \in Senders \ {Event.sender.id} : thread_owner[s] # OwnedByBot

\* a POST whose signature was accepted and whose body parsed has been handled
\* in this step
Handled == pc = "idle" /\ pc' = "done" /\ validated' = "true" /\ request'.data.json

\* the output channel's operation op has been called for conversation s in
\* this step
Sent(op, s) ==
    pc = "idle" /\ pc' = "done" /\ out'.op = op /\ out'.recipient_id = s

\* the event of the request carries a thread-control request that names an app
RequestsThreadControl(m) ==
    /\ Has(m.request_thread_control)
    /\ Has(Val(m.request_thread_control).requested_owner_app_id)

\* the thread-control operations of the output channel
ControlOps == {"send_pass_thread_control", "send_take_thread_control"}

C17_CommandBeforeForward ==
    Answered =>
        \A j \in 1..Len(effects) :
            (effects[j].op = "on_new_message"
             /\ effects[j].text = PASSED_THREAD_CONTROL)
                => \E i \in 1..(j-1) :
                       /\ effects[i].op = "pass_thread_control"
                       /\ effects[i].sender = effects[j].sender

C17_Witness ==
    /\ Authenticated /\ RequestThreadControlEvent(Event)
    /\ Len(effects) = 2
    /\ effects[1].op = "pass_thread_control"
    /\ effects[2].op = "on_new_message"
    /\ effects[2].text = PASSED_THREAD_CONTROL

\* the event carries a message flagged as an echo
EchoMessage(m) == Has(m.message) /\ Val(m.message).is_echo = Some(TRUE)

\* C20: an event whose message is flagged as an echo is never forwarded,
\* whatever text or attachments it carries.
C20_EchoNeverForwarded ==
    (Authenticated /\ EchoMessage(Event)) => Forwards(effects) = <<>>

\* the paragraphs joined again with two newlines between them
RECURSIVE JoinParagraphs(_)
JoinParagraphs(parts) ==
    IF Len(parts) = 0 THEN <<>>
    ELSE IF Len(parts) = 1 THEN parts[1]
    ELSE parts[1] \o <<NL, NL>> \o JoinParagraphs(Tail(parts))

TextsOf(ws) == [i \in 1..Len(ws) |-> ws[i].text]

\* number of leftmost, non-overlapping occurrences of two newlines in s
RECURSIVE Breaks(_)
Breaks(s) ==
    IF Len(s) < 2 THEN 0
    ELSE IF s[1] = NL /\ s[2] = NL THEN 1 + Breaks(SubSeq(s, 3, Len(s)))
    ELSE Breaks(Tail(s))

\* C12: send_text_with_buttons with more than 3 buttons sends no button
\* template: it sends the text as plain text only and leaves the buttons as
\* they were; with 3 buttons or fewer it sends exactly one button template
\* and no plain text.
C12_ButtonLimit ==
    (pc = "done" /\ out.op = "send_text_with_buttons") =>
        IF Len(out.buttons) > 3
        THEN /\ \A i \in 1..Len(payloads) :
                    payloads[i].kind = "text" /\ payloads[i].buttons = <<>>
             /\ Len(payloads) >= 1
             /\ JoinParagraphs(TextsOf(payloads)) = out.text
             /\ out.buttons_after = out.buttons
        ELSE /\ Len(payloads) = 1
             /\ payloads[1].kind = "button"
             /\ payloads[1].text = out.text
             /\ Len(payloads[1].buttons) = Len(out.buttons)

C12_Witness ==
    /\ pc = "done" /\ out.op = "send_text_with_buttons"
    /\ Len(out.buttons) = 4
    /\ \E i \in 1..4 : ~Has(out.buttons[i].type)
    /\ Len(payloads) = 2 /\ payloads[1].kind = "text"

\* every button of a list that went out has a type: "postback" where none
\* was supplied, the supplied one otherwise, the rest of the button as supplied
TypedAs(sentButtons, supplied) ==
    /\ Len(sentButtons) = Len(supplied)
    /\ \A i \in 1..Len(supplied) :
          /\ Has(sentButtons[i].type)
          /\ sentButtons[i].type = (IF Has(supplied[i].type) THEN supplied[i].type
                                    ELSE Some("postback"))
          /\ sentButtons[i].title = supplied[i].title

\* C13: in every button template and every generic template that is sent,
\* each button has a type: 'postback' if it was supplied without one, its
\* own type otherwise, and its other fields are as supplied.
C13_ButtonsTyped ==
    \A k \in 1..Len(payloads) :
        /\ payloads[k].kind = "button" => TypedAs(payloads[k].buttons, out.buttons)
        /\ payloads[k].kind = "generic" =>
              /\ Len(payloads[k].elements) = Len(out.elements)
              /\ \A e \in 1..Len(out.elements) :
                    /\ payloads[k].elements[e].title = out.elements[e].title
                    /\ Has(payloads[k].elements[e].buttons)
                    /\ TypedAs(Val(payloads[k].elements[e].buttons),
                               Val(out.elements[e].buttons))

C13_Witness ==
    /\ pc = "done" /\ out.op = "send_custom_message"
    /\ Len(payloads) = 1 /\ payloads[1].kind = "generic"
    /\ Len(out.elements) = 2
    /\ \E i \in 1..Len(Val(out.elements[2].buttons)) :
           ~Has(Val(out.elements[2].buttons)[i].type)
    /\ \E i \in 1..Len(Val(out.elements[1].buttons)) :
           Val(out.elements[1].buttons)[i].type = Some("web_url")

\* C14: send_quick_replies sends exactly one payload, which holds every
\* supplied quick reply in order, whatever their number; a reply supplied
\* without content_type has content_type 'text', the others keep theirs.
C14_QuickRepliesDefaulted ==
    (pc = "done" /\ out.op = "send_quick_replies") =>
        /\ Len(payloads) = 1
        /\ payloads[1].kind = "quick_replies"
        /\ payloads[1].text = out.text
        /\ Len(payloads[1].quick_replies) = Len(out.quick_replies)
        /\ \A i \in 1..Len(out.quick_replies) :
              /\ payloads[1].quick_replies[i].title = out.quick_replies[i].title
              /\ payloads[1].quick_replies[i].content_type =
                    (IF Has(out.quick_replies[i].content_type)
                     THEN out.quick_replies[i].content_type
                     ELSE Some("text"))

C14_Witness ==
    /\ pc = "done" /\ out.op = "send_quick_replies"
    /\ Len(out.quick_replies) = 3
    /\ ~Has(out.quick_replies[1].content_type)
    /\ out.quick_replies[2].content_type = Some("location")
    /\ Len(payloads) = 1

\* C15: send_text_message sends one text payload per paragraph of the
\* message, in the paragraphs' order: no sent text contains two newlines in
\* a row, there is one more than the message has paragraph breaks, and
\* joined with two newlines they are the message.
C15_ParagraphsInOrder ==
    (pc = "done" /\ out.op = "send_text_message") =>
        /\ \A i \in 1..Len(payloads) :
              /\ payloads[i].kind = "text"
              /\ payloads[i].recipient = out.recipient_id
              /\ Breaks(payloads[i].text) = 0
        /\ Len(payloads) = Breaks(out.text) + 1
        /\ JoinParagraphs(TextsOf(payloads)) = out.text

C15_Witness ==
    /\ pc = "done" /\ out.op = "send_text_message"
    /\ out.text = <<"a", NL, NL, NL, "a">>
    /\ Len(payloads) = 2
    /\ payloads[2].text = <<NL, "a">>

\* C16: a GET verification request gets its challenge back only if a verify
\* token is configured and the request's verify-token parameter equals it;
\* every other request (wrong token, missing token, no token configured)
\* gets the rejection "failure, invalid token".
C16_ChallengeOnlyForToken ==
    (pc = "done" /\ get.op = "token_verification") =>
        \/ Has(fb_verify) /\ get.verify_token = fb_verify
        \/ get.response = "failure, invalid token"

\* the request of worker w, handled alone
Alone(w) ==
    webhook(fb_secret, fb_thread_control_authorized, workers[w].request,
            workers[w].handler_raises, workers[w].command_fails)

\* C19: however the steps of concurrently handled requests interleave, a
\* request that has been answered made the forwards (text, sender id) and
\* issued the commands it makes when it is handled alone, and returned the
\* same response; no step changes the authorized set.
C19_InterleavingInvisible ==
    /\ [](\A w \in Workers :
            workers[w].pc = "done"
                => /\ workers[w].effects = Alone(w).effects
                   /\ workers[w].response = Alone(w).response
                   /\ workers[w].validated = Alone(w).validated)
    /\ [][fb_thread_control_authorized' = fb_thread_control_authorized]_vars

\* a request was answered with forwards while the request of another sender
\* was between the store of its event and its handler
C19_Witness ==
    \E w \in Workers, v \in Workers :
        /\ w # v
        /\ workers[w].pc = "done"
        /\ Len(workers[w].effects) = 2
        /\ workers[v].pc = "dispatch"
        /\ workers[v].request.data.payload.sender.id
               # workers[w].request.data.payload.sender.id

====
